---- MODULE Spec2Model ----
(***************************************************************************)
(* number-guess: the player ledger (store/playerStore.ts), the game        *)
(* session (store/gameStore.ts), the feedback engine (utils/gameLogic.ts), *)
(* the persistence gateway (utils/storage.ts) and the GameBoard win effect *)
(* (components/Game/GameBoard.tsx) as one state machine.                   *)
(*                                                                         *)
(* Representation:                                                         *)
(*   - a nullable value is a sequence of length 0 (null / undefined /      *)
(*     absent key) or 1 (the value);                                       *)
(*   - a string built by a template literal is the tuple of its parts,     *)
(*     `player-${t}` is <<"player", t>>, the empty string is <<>>;         *)
(*   - a Date is its epoch-millisecond reading, its JSON form is           *)
(*     <<"iso", t>>;                                                       *)
(*   - a JavaScript number that results from a division is the reduced     *)
(*     fraction <<numerator, denominator>>.                                *)
(***************************************************************************)
EXTENDS Integers, Sequences, FiniteSets, TLC

\* ------------------------------------------------------------------ bounds
\* largest reading of Date.now() the model explores
MaxClock == 2
\* largest roster length
MaxPlayers == 2
\* largest number of started sessions counted over the whole roster
MaxPlayed == 3
\* largest number of recorded wins counted over the whole roster
MaxWon == 2

\* largest number of sessions started
MaxSessions == 2
\* largest roster handed to the leaderboard
MaxRoster == 12

\* names typed into the player form
Names == {"Alice"}
\* guess counts passed to updatePlayerStats by a direct caller
GuessCounts == {10, 20}
\* values Math.random() returns, as <<numerator, denominator>>: 0, 0.49 and 0.99
RandomDraws == {<<0, 100>>, <<49, 100>>, <<99, 100>>}
\* values submitted as guesses
GuessValues == {25, 50, 75}

\* ------------------------------------------------------------- variables
VARIABLES
    now,            \* reading of Date.now()
    players,        \* playerStore.players
    currentPlayer,  \* playerStore.currentPlayer
    currentGame,    \* gameStore.currentGame
    targetNumber,   \* gameStore.targetNumber
    guesses,        \* gameStore.guesses
    gameStatus,     \* gameStore.gameStatus
    guessResults,   \* gameStore.guessResults
    localStorage,   \* the three keys of utils/storage.ts
    sessionStorage, \* the keys the GameBoard win effect has set to 'true'
    renderPending,  \* GameBoard has rendered and its effect has not run yet
    winLog,         \* history: per roster position, the guess counts of the wins recorded for it
    sessionLog,     \* history: per started session, its game id and owner, whether it was won,
                    \* the updatePlayerStats calls the win effect made for it and whom they credited
    rejection,      \* history: why the last makeGuess of the session was rejected, "" if it was not
    entries         \* leaderboardStore.entries

ledgerVars == <<players, currentPlayer, winLog>>
gameVars == <<currentGame, targetNumber, guesses, gameStatus, guessResults>>
vars == <<now, players, currentPlayer, currentGame, targetNumber, guesses, gameStatus,
          guessResults, localStorage, sessionStorage, renderPending, winLog, sessionLog,
          rejection, entries>>

\* --------------------------------------------------------------- helpers
None == <<>>
Some(x) == <<x>>
IsSome(o) == Len(o) = 1
Get(o) == o[1]

EmptyString == <<>>
InvalidId == <<"invalid-id">>

RECURSIVE GCD(_, _)
GCD(a, b) == IF b = 0 THEN a ELSE GCD(b, a % b)

\* the JavaScript quotient a / b of two non-negative integers, b > 0
Quotient(a, b) == LET g == GCD(a, b) IN <<a \div g, b \div g>>
Zero == <<0, 1>>

Min(a, b) == IF a <= b THEN a ELSE b

RECURSIVE SumOver(_, _)
\* sum of f[i] over the positions 1..n of a sequence of numbers
SumOver(f, n) == IF n = 0 THEN 0 ELSE f[n] + SumOver(f, n - 1)

TotalPlayed(ps) == SumOver([i \in DOMAIN ps |-> ps[i].gamesPlayed], Len(ps))
TotalWon(ps) == SumOver([i \in DOMAIN ps |-> ps[i].gamesWon], Len(ps))

\* Date.prototype.toJSON and new Date(string)
ToISO(t) == <<"iso", t>>
FromISO(s) == s[2]

\* Array.prototype.find(...) || null on the roster
find(ps, playerId) ==
    IF \E i \in DOMAIN ps : ps[i].id = playerId
    THEN Some(ps[CHOOSE i \in DOMAIN ps :
                    /\ ps[i].id = playerId
                    /\ \A j \in 1..(i - 1) : ps[j].id # playerId])
    ELSE None

\* ----------------------------------------------------- persistence gateway
\* JSON.stringify of the roster
savePlayers(ls, ps) ==
    [ls EXCEPT !.PLAYERS =
        Some([i \in DOMAIN ps |-> [ps[i] EXCEPT !.lastPlayed = ToISO(@)]])]

\* JSON.parse of the roster, dates rebuilt; absent key gives []
storageLoadPlayers(ls) ==
    IF ~IsSome(ls.PLAYERS) THEN <<>>
    ELSE LET data == Get(ls.PLAYERS)
         IN  [i \in DOMAIN data |-> [data[i] EXCEPT !.lastPlayed = FromISO(@)]]

saveCurrentPlayerId(ls, playerId) == [ls EXCEPT !.CURRENT_PLAYER = Some(playerId)]

\* localStorage.getItem: None when the key is absent
loadCurrentPlayerId(ls) == ls.CURRENT_PLAYER

\* ------------------------------------------------------------ player ledger
\* NewPlayer counting the creation as a first session played
NewPlayerCountingFirstGame(name, t) ==
    [id |-> <<"player", t>>, name |-> name, gamesPlayed |-> 1, gamesWon |-> 0,
     totalGuesses |-> 0, bestGame |-> 0, averageGuesses |-> Zero, lastPlayed |-> t]

NewPlayer(name, t) ==
    [id |-> <<"player", t>>, name |-> name, gamesPlayed |-> 0, gamesWon |-> 0,
     totalGuesses |-> 0, bestGame |-> 0, averageGuesses |-> Zero, lastPlayed |-> t]

\* x || 0
OrZero(x) == IF x = 0 THEN 0 ELSE x

\* WonStats keeping the larger of bestGame and guessCount
WonStatsWorstGame(player, guessCount, t) ==
    LET gamesWon == OrZero(player.gamesWon) + 1
        totalGuesses == player.totalGuesses + guessCount
        bestGame == IF player.bestGame = 0 THEN guessCount
                    ELSE IF player.bestGame >= guessCount THEN player.bestGame ELSE guessCount
        averageGuesses == Quotient(totalGuesses, gamesWon)
    IN  [player EXCEPT !.gamesWon = gamesWon, !.totalGuesses = totalGuesses,
                       !.bestGame = bestGame, !.averageGuesses = averageGuesses,
                       !.lastPlayed = t]

\* WonStats counting the win as one more session played
WonStatsCountsPlayed(player, guessCount, t) ==
    LET gamesWon == OrZero(player.gamesWon) + 1
        totalGuesses == player.totalGuesses + guessCount
        bestGame == IF player.bestGame = 0 THEN guessCount
                    ELSE Min(player.bestGame, guessCount)
        averageGuesses == Quotient(totalGuesses, gamesWon)
    IN  [player EXCEPT !.gamesPlayed = player.gamesPlayed + 1,
                       !.gamesWon = gamesWon, !.totalGuesses = totalGuesses,
                       !.bestGame = bestGame, !.averageGuesses = averageGuesses,
                       !.lastPlayed = t]

\* the record updatePlayerStats builds for a matching player
WonStats(player, guessCount, t) ==
    LET gamesWon == OrZero(player.gamesWon) + 1
        totalGuesses == player.totalGuesses + guessCount
        bestGame == IF player.bestGame = 0 THEN guessCount
                    ELSE Min(player.bestGame, guessCount)
        averageGuesses == Quotient(totalGuesses, gamesWon)
    IN  [player EXCEPT !.gamesWon = gamesWon, !.totalGuesses = totalGuesses,
                       !.bestGame = bestGame, !.averageGuesses = averageGuesses,
                       !.lastPlayed = t]

\* StartedStats recomputing the average over the sessions started
StartedStatsRecalculating(player, t) ==
    [player EXCEPT !.gamesPlayed = player.gamesPlayed + 1,
                   !.averageGuesses = Quotient(player.totalGuesses, player.gamesPlayed + 1),
                   !.lastPlayed = t]

\* the record incrementGamesPlayed builds for a matching player
StartedStats(player, t) ==
    [player EXCEPT !.gamesPlayed = player.gamesPlayed + 1, !.lastPlayed = t]

\* the roster and current player updatePlayerStats sets
StatsRoster(ps, playerId, guessCount, t) ==
    [i \in DOMAIN ps |-> IF ps[i].id = playerId THEN WonStats(ps[i], guessCount, t)
                         ELSE ps[i]]

\* the roster incrementGamesPlayed sets
PlayedRoster(ps, playerId, t) ==
    [i \in DOMAIN ps |-> IF ps[i].id = playerId THEN StartedStats(ps[i], t)
                         ELSE ps[i]]

\* history of the calls, kept per roster position
LoggedWins(log, ps, playerId, guessCount) ==
    [i \in DOMAIN log |-> IF ps[i].id = playerId THEN Append(log[i], guessCount)
                          ELSE log[i]]

\* an action of the player store leaves this much alone
LedgerFrame == UNCHANGED <<gameVars, sessionLog, rejection>>

\* loadPlayers selecting the first roster entry when the pointer resolves to none
loadPlayersFallingBackToFirst ==
    LET ps == storageLoadPlayers(localStorage)
        currentPlayerId == loadCurrentPlayerId(localStorage)
        pointed == IF IsSome(currentPlayerId) /\ Get(currentPlayerId) # EmptyString
                   THEN find(ps, Get(currentPlayerId))
                   ELSE None
    IN  /\ players' = ps
        /\ currentPlayer' = IF IsSome(pointed) \/ ps = <<>> THEN pointed ELSE Some(ps[1])
        /\ UNCHANGED <<localStorage, winLog>>

loadPlayers ==
    LET ps == storageLoadPlayers(localStorage)
        currentPlayerId == loadCurrentPlayerId(localStorage)
    IN  /\ players' = ps
        /\ currentPlayer' = IF IsSome(currentPlayerId) /\ Get(currentPlayerId) # EmptyString
                            THEN find(ps, Get(currentPlayerId))
                            ELSE None
        /\ UNCHANGED <<localStorage, winLog>>

createPlayer(name) ==
    /\ Len(players) < MaxPlayers
    /\ LET newPlayer == NewPlayer(name, now)
           ps == Append(players, newPlayer)
       IN  /\ localStorage' = saveCurrentPlayerId(savePlayers(localStorage, ps), newPlayer.id)
           /\ players' = ps
           /\ currentPlayer' = Some(newPlayer)
    /\ winLog' = Append(winLog, <<>>)

\* selectPlayer clearing the selection when the id matches no roster entry
selectPlayerClearingOnMiss(playerId) ==
    /\ IF playerId = EmptyString
       THEN /\ localStorage' = saveCurrentPlayerId(localStorage, EmptyString)
            /\ currentPlayer' = None
       ELSE LET player == find(players, playerId)
            IN  /\ localStorage' = IF IsSome(player)
                                  THEN saveCurrentPlayerId(localStorage, playerId)
                                  ELSE localStorage
                /\ currentPlayer' = player
    /\ UNCHANGED <<players, winLog>>

selectPlayer(playerId) ==
    /\ IF playerId = EmptyString
       THEN /\ localStorage' = saveCurrentPlayerId(localStorage, EmptyString)
            /\ currentPlayer' = None
       ELSE LET player == find(players, playerId)
            IN  IF IsSome(player)
                THEN /\ localStorage' = saveCurrentPlayerId(localStorage, playerId)
                     /\ currentPlayer' = player
                ELSE UNCHANGED <<localStorage, currentPlayer>>
    /\ UNCHANGED <<players, winLog>>

updatePlayerStats(playerId, guessCount) ==
    /\ LET ps == StatsRoster(players, playerId, guessCount, now)
       IN  /\ TotalWon(ps) <= MaxWon
           /\ localStorage' = savePlayers(localStorage, ps)
           /\ players' = ps
           /\ currentPlayer' = find(ps, playerId)
    /\ winLog' = LoggedWins(winLog, players, playerId, guessCount)

\* incrementGamesPlayed leaving the current player as it was
incrementGamesPlayedKeepingCurrent(playerId) ==
    /\ LET ps == PlayedRoster(players, playerId, now)
       IN  /\ TotalPlayed(ps) <= MaxPlayed
           /\ localStorage' = savePlayers(localStorage, ps)
           /\ players' = ps
           /\ currentPlayer' = currentPlayer
    /\ UNCHANGED winLog

incrementGamesPlayed(playerId) ==
    /\ LET ps == PlayedRoster(players, playerId, now)
       IN  /\ TotalPlayed(ps) <= MaxPlayed
           /\ localStorage' = savePlayers(localStorage, ps)
           /\ players' = ps
           /\ currentPlayer' = find(ps, playerId)
    /\ UNCHANGED winLog

\* ---------------------------------------------------------- feedback engine
Abs(x) == IF x < 0 THEN -x ELSE x

\* Math.floor(Math.random() * (max - min + 1)) + min, Math.random() = draw[1] / draw[2] < 1
\* generateRandomNumber one above its range
generateRandomNumberAboveMax(draw, min, max) ==
    ((draw[1] * (max - min + 1)) \div draw[2]) + min + 1

\* generateRandomNumber without the offset
generateRandomNumberFromZero(draw, min, max) == (draw[1] * (max - min + 1)) \div draw[2]

generateRandomNumber(draw, min, max) == ((draw[1] * (max - min + 1)) \div draw[2]) + min

\* checkGuess with >= where the first comparison has ===
checkGuessAtLeast(guess, target) ==
    LET difference == Abs(guess - target)
        feedback == IF guess >= target THEN "correct"
                    ELSE IF guess > target THEN "too-high" ELSE "too-low"
        distance == IF difference = 0 THEN "hot"
                    ELSE IF difference <= 5 THEN "hot"
                    ELSE IF difference <= 15 THEN "warm" ELSE "cold"
    IN  [guess |-> guess, feedback |-> feedback, distance |-> distance,
         difference |-> difference]

\* checkGuess with < where the hot tier has <=
checkGuessHotBelowFive(guess, target) ==
    LET difference == Abs(guess - target)
        feedback == IF guess = target THEN "correct"
                    ELSE IF guess > target THEN "too-high" ELSE "too-low"
        distance == IF difference = 0 THEN "hot"
                    ELSE IF difference < 5 THEN "hot"
                    ELSE IF difference <= 15 THEN "warm" ELSE "cold"
    IN  [guess |-> guess, feedback |-> feedback, distance |-> distance,
         difference |-> difference]

checkGuess(guess, target) ==
    LET difference == Abs(guess - target)
        feedback == IF guess = target THEN "correct"
                    ELSE IF guess > target THEN "too-high" ELSE "too-low"
        distance == IF difference = 0 THEN "hot"
                    ELSE IF difference <= 5 THEN "hot"
                    ELSE IF difference <= 15 THEN "warm" ELSE "cold"
    IN  [guess |-> guess, feedback |-> feedback, distance |-> distance,
         difference |-> difference]

\* -------------------------------------------------------------- game session
\* JSON.stringify of the game collection; an undefined completedAt is left out
saveGames(ls, games) ==
    [ls EXCEPT !.GAMES =
        Some([i \in DOMAIN games |->
                [games[i] EXCEPT !.startedAt = ToISO(@),
                                 !.completedAt = IF IsSome(@) THEN Some(ToISO(Get(@)))
                                                 ELSE None]])]

\* JSON.parse of the game collection, dates rebuilt; absent key gives []
loadGames(ls) ==
    IF ~IsSome(ls.GAMES) THEN <<>>
    ELSE LET data == Get(ls.GAMES)
         IN  [i \in DOMAIN data |->
                [data[i] EXCEPT !.startedAt = FromISO(@),
                                !.completedAt = IF IsSome(@) THEN Some(FromISO(Get(@)))
                                                ELSE None]]

\* findIndex finding nothing, so that every save appends
findIndexNotFound(games, id) == 0

\* Array.prototype.findIndex, 0 standing for -1
findIndex(games, id) ==
    IF \E i \in DOMAIN games : games[i].id = id
    THEN CHOOSE i \in DOMAIN games :
            /\ games[i].id = id
            /\ \A j \in 1..(i - 1) : games[j].id # id
    ELSE 0

Includes(seq, x) == \E i \in DOMAIN seq : seq[i] = x

\* the duplicate check comparing against the last guess only
alreadyGuessedLast(log, guess) == Len(log) > 0 /\ log[Len(log)] = guess

\* the duplicate check finding nothing
alreadyGuessedNever(log, guess) == FALSE

\* makeGuess: guesses.includes(guess)
alreadyGuessed(log, guess) == Includes(log, guess)

\* startNewGame drawing the store's target a second time
startNewGameDrawingTwice(playerId, draw) ==
    /\ Len(sessionLog) < MaxSessions
    /\ LET target == generateRandomNumber(draw, 1, 100)
           newGame == [id |-> <<"game", now>>, playerId |-> playerId,
                       targetNumber |-> target, guesses |-> <<>>,
                       isComplete |-> FALSE, startedAt |-> now, completedAt |-> None]
       IN  /\ incrementGamesPlayed(playerId)
           /\ currentGame' = Some(newGame)
           /\ targetNumber' = generateRandomNumber(<<49, 100>>, 1, 100)
           /\ guesses' = <<>>
           /\ gameStatus' = "playing"
           /\ guessResults' = <<>>
    /\ sessionLog' = Append(sessionLog, [id |-> <<"game", now>>, owner |-> playerId,
                                         won |-> FALSE, recorded |-> 0, credited |-> <<>>])
    /\ rejection' = ""

startNewGame(playerId, draw) ==
    /\ Len(sessionLog) < MaxSessions
    /\ LET target == generateRandomNumber(draw, 1, 100)
           newGame == [id |-> <<"game", now>>, playerId |-> playerId,
                       targetNumber |-> target, guesses |-> <<>>,
                       isComplete |-> FALSE, startedAt |-> now, completedAt |-> None]
       IN  /\ incrementGamesPlayed(playerId)
           /\ currentGame' = Some(newGame)
           /\ targetNumber' = target
           /\ guesses' = <<>>
           /\ gameStatus' = "playing"
           /\ guessResults' = <<>>
    /\ sessionLog' = Append(sessionLog, [id |-> <<"game", now>>, owner |-> playerId,
                                         won |-> FALSE, recorded |-> 0, credited |-> <<>>])
    /\ rejection' = ""

\* makeGuess stamping completedAt on every accepted guess
makeGuessStampingEveryGuess(guess) ==
    IF ~IsSome(currentGame) \/ Get(currentGame).isComplete
    THEN /\ rejection' = IF IsSome(currentGame) THEN "complete" ELSE "no-game"
         /\ UNCHANGED <<gameVars, localStorage, ledgerVars, sessionLog>>
    ELSE IF alreadyGuessed(guesses, guess)
    THEN /\ rejection' = "duplicate"
         /\ UNCHANGED <<gameVars, localStorage, ledgerVars, sessionLog>>
    ELSE LET result == checkGuess(guess, targetNumber)
             newGuesses == Append(guesses, guess)
             newResults == Append(guessResults, result)
             isWon == result.feedback = "correct"
             updatedGame == [Get(currentGame) EXCEPT
                                !.guesses = newGuesses,
                                !.isComplete = isWon,
                                !.completedAt = Some(now)]
             allGames == loadGames(localStorage)
             gameIndex == findIndex(allGames, Get(currentGame).id)
             saved == IF gameIndex >= 1 THEN [allGames EXCEPT ![gameIndex] = updatedGame]
                      ELSE Append(allGames, updatedGame)
         IN  /\ localStorage' = saveGames(localStorage, saved)
             /\ currentGame' = Some(updatedGame)
             /\ guesses' = newGuesses
             /\ guessResults' = newResults
             /\ gameStatus' = IF isWon THEN "won" ELSE "playing"
             /\ sessionLog' = IF isWon
                              THEN [sessionLog EXCEPT ![Len(sessionLog)].won = TRUE]
                              ELSE sessionLog
             /\ rejection' = ""
             /\ UNCHANGED <<targetNumber, ledgerVars>>

makeGuess(guess) ==
    IF ~IsSome(currentGame) \/ Get(currentGame).isComplete
    THEN /\ rejection' = IF IsSome(currentGame) THEN "complete" ELSE "no-game"
         /\ UNCHANGED <<gameVars, localStorage, ledgerVars, sessionLog>>
    ELSE IF alreadyGuessed(guesses, guess)
    THEN /\ rejection' = "duplicate"
         /\ UNCHANGED <<gameVars, localStorage, ledgerVars, sessionLog>>
    ELSE LET result == checkGuess(guess, targetNumber)
             newGuesses == Append(guesses, guess)
             newResults == Append(guessResults, result)
             isWon == result.feedback = "correct"
             updatedGame == [Get(currentGame) EXCEPT
                                !.guesses = newGuesses,
                                !.isComplete = isWon,
                                !.completedAt = IF isWon THEN Some(now) ELSE None]
             allGames == loadGames(localStorage)
             gameIndex == findIndex(allGames, Get(currentGame).id)
             saved == IF gameIndex >= 1 THEN [allGames EXCEPT ![gameIndex] = updatedGame]
                      ELSE Append(allGames, updatedGame)
         IN  /\ localStorage' = saveGames(localStorage, saved)
             /\ currentGame' = Some(updatedGame)
             /\ guesses' = newGuesses
             /\ guessResults' = newResults
             /\ gameStatus' = IF isWon THEN "won" ELSE "playing"
             /\ sessionLog' = IF isWon
                              THEN [sessionLog EXCEPT ![Len(sessionLog)].won = TRUE]
                              ELSE sessionLog
             /\ rejection' = ""
             /\ UNCHANGED <<targetNumber, ledgerVars>>

\* resetGame leaving gameStatus as it was
resetGameKeepingStatus ==
    /\ currentGame' = None
    /\ targetNumber' = 0
    /\ guesses' = <<>>
    /\ gameStatus' = gameStatus
    /\ guessResults' = <<>>
    /\ rejection' = ""
    /\ UNCHANGED <<localStorage, ledgerVars, sessionLog>>

\* resetGame clearing the persisted games too
resetGameAndHistory ==
    /\ currentGame' = None
    /\ targetNumber' = 0
    /\ guesses' = <<>>
    /\ gameStatus' = "idle"
    /\ guessResults' = <<>>
    /\ rejection' = ""
    /\ localStorage' = saveGames(localStorage, <<>>)
    /\ UNCHANGED <<ledgerVars, sessionLog>>

resetGame ==
    /\ currentGame' = None
    /\ targetNumber' = 0
    /\ guesses' = <<>>
    /\ gameStatus' = "idle"
    /\ guessResults' = <<>>
    /\ rejection' = ""
    /\ UNCHANGED <<localStorage, ledgerVars, sessionLog>>

\* ---------------------------------------------------------------- leaderboard
\* a.averageGuesses - b.averageGuesses < 0, on fractions with positive denominators
Less(a, b) == a[1] * b[2] < b[1] * a[2]

\* one more element put behind the elements of a sorted list that do not follow it
Inserted(sorted, e) ==
    LET k == Cardinality({i \in DOMAIN sorted :
                            ~Less(e.averageGuesses, sorted[i].averageGuesses)})
    IN  SubSeq(sorted, 1, k) \o <<e>> \o SubSeq(sorted, k + 1, Len(sorted))

\* sort descending: the comparator with its operands swapped
RECURSIVE sortDescending(_)
sortDescending(seq) ==
    IF seq = <<>> THEN <<>>
    ELSE LET sorted == sortDescending(SubSeq(seq, 1, Len(seq) - 1))
             e == seq[Len(seq)]
             k == Cardinality({i \in DOMAIN sorted :
                                ~Less(sorted[i].averageGuesses, e.averageGuesses)})
         IN  SubSeq(sorted, 1, k) \o <<e>> \o SubSeq(sorted, k + 1, Len(sorted))

\* Array.prototype.sort((a, b) => a.averageGuesses - b.averageGuesses), which is stable
RECURSIVE sort(_)
sort(seq) ==
    IF seq = <<>> THEN <<>>
    ELSE Inserted(sort(SubSeq(seq, 1, Len(seq) - 1)), seq[Len(seq)])

\* Array.prototype.slice(0, end)
slice(seq, end) == SubSeq(seq, 1, Min(end, Len(seq)))

Eligible(player) == player.gamesPlayed > 0

Entry(player) ==
    [playerId |-> player.id, playerName |-> player.name,
     averageGuesses |-> player.averageGuesses, gamesPlayed |-> player.gamesPlayed,
     rank |-> 0]

Ranked(leaderboard) == [i \in DOMAIN leaderboard |-> [leaderboard[i] EXCEPT !.rank = i]]

\* calculateLeaderboard cutting to ten entries before it sorts
calculateLeaderboardTruncatingFirst(ps) ==
    LET eligiblePlayers == SelectSeq(ps, Eligible)
        leaderboard == sort(slice([i \in DOMAIN eligiblePlayers |->
                                        Entry(eligiblePlayers[i])], 10))
    IN  Ranked(leaderboard)

calculateLeaderboard(ps) ==
    LET eligiblePlayers == SelectSeq(ps, Eligible)
        leaderboard == sort([i \in DOMAIN eligiblePlayers |-> Entry(eligiblePlayers[i])])
    IN  slice(Ranked(leaderboard), 10)

updateLeaderboard ==
    /\ entries' = calculateLeaderboard(players)
    /\ UNCHANGED <<now, ledgerVars, gameVars, localStorage, sessionStorage, renderPending,
                   sessionLog, rejection>>

\* getPlayerRank, 0 standing for null
getPlayerRank(playerId) ==
    IF \E i \in DOMAIN entries : entries[i].playerId = playerId
    THEN entries[CHOOSE i \in DOMAIN entries :
                    /\ entries[i].playerId = playerId
                    /\ \A j \in 1..(i - 1) : entries[j].playerId # playerId].rank
    ELSE 0

\* ------------------------------------------------------------- game stats
Max(a, b) == IF a >= b THEN a ELSE b

RECURSIVE minRangeLastLow(_, _)
\* minRange taking guess + 1 of the last too-low guess
minRangeLastLow(log, results) ==
    IF log = <<>> THEN 1
    ELSE LET index == Len(log)
             before == minRangeLastLow(SubSeq(log, 1, index - 1), results)
         IN  IF index \in DOMAIN results /\ results[index].feedback = "too-low"
             THEN log[index] + 1
             ELSE before

RECURSIVE minRange(_, _)
\* the lower end of the narrowed range GameStats shows
minRange(log, results) ==
    IF log = <<>> THEN 1
    ELSE LET index == Len(log)
             before == minRange(SubSeq(log, 1, index - 1), results)
         IN  IF index \in DOMAIN results /\ results[index].feedback = "too-low"
             THEN Max(before, log[index] + 1)
             ELSE before

RECURSIVE maxRange(_, _)
\* the upper end of the narrowed range GameStats shows
maxRange(log, results) ==
    IF log = <<>> THEN 100
    ELSE LET index == Len(log)
             before == maxRange(SubSeq(log, 1, index - 1), results)
         IN  IF index \in DOMAIN results /\ results[index].feedback = "too-high"
             THEN Min(before, log[index] - 1)
             ELSE before

\* ---------------------------------------------------- callers of the stores
\* the clock advances between two calls
Tick ==
    /\ now < MaxClock
    /\ now' = now + 1
    /\ UNCHANGED <<ledgerVars, gameVars, localStorage, sessionStorage, renderPending,
                   sessionLog, rejection, entries>>

\* ids a caller of the stores can pass: ids handed out so far, '' and a stranger
PlayerIds == {<<"player", t>> : t \in 1..MaxClock}
AnyId == PlayerIds \cup {EmptyString, InvalidId}

\* a direct call (a test, another module) runs no React effect
Direct == UNCHANGED <<now, sessionStorage, renderPending, entries>>

CallLoadPlayers == loadPlayers /\ LedgerFrame /\ Direct
CallCreatePlayer == \E name \in Names : createPlayer(name) /\ LedgerFrame /\ Direct
CallSelectPlayer == \E playerId \in AnyId : selectPlayer(playerId) /\ LedgerFrame /\ Direct
CallUpdatePlayerStats ==
    \E playerId \in AnyId, guessCount \in GuessCounts :
        updatePlayerStats(playerId, guessCount) /\ LedgerFrame /\ Direct
CallIncrementGamesPlayed ==
    \E playerId \in AnyId : incrementGamesPlayed(playerId) /\ LedgerFrame /\ Direct
CallStartNewGame ==
    \E playerId \in PlayerIds \cup {InvalidId}, draw \in RandomDraws : startNewGame(playerId, draw) /\ Direct
CallMakeGuess == \E guess \in GuessValues : makeGuess(guess) /\ Direct
CallResetGame == resetGame /\ Direct

\* ------------------------------------------------------ presentation layer
\* App renders GameBoard only with a current player
Mounted == IsSome(currentPlayer)

\* the dependencies of the GameBoard win effect
EffectDeps == <<gameStatus, currentGame, currentPlayer>>

\* after a handler: GameBoard renders anew when it mounts or a dependency changed
Rendered == IsSome(currentPlayer') /\ (~Mounted \/ EffectDeps' # EffectDeps)

\* a handler runs once the effects of the previous render have run
Handler ==
    ~renderPending /\ renderPending' = Rendered /\ UNCHANGED <<now, sessionStorage, entries>>

statsKey(game) == <<"stats-updated">> \o game.id

\* the body of the GameBoard win effect
WinEffect ==
    /\ Mounted
    /\ renderPending
    /\ IF /\ gameStatus = "won"
          /\ IsSome(currentGame)
          /\ IsSome(currentPlayer)
          /\ Get(currentGame).isComplete
          /\ IsSome(Get(currentGame).completedAt)
          /\ statsKey(Get(currentGame)) \notin sessionStorage
       THEN /\ updatePlayerStats(Get(currentPlayer).id, Len(Get(currentGame).guesses))
            /\ sessionStorage' = sessionStorage \cup {statsKey(Get(currentGame))}
            /\ sessionLog' = [sessionLog EXCEPT
                                ![Len(sessionLog)].recorded = @ + 1,
                                ![Len(sessionLog)].credited = Append(@, Get(currentPlayer).id)]
       ELSE UNCHANGED <<ledgerVars, localStorage, sessionStorage, sessionLog>>
    /\ renderPending' = (currentPlayer' # currentPlayer)
    /\ UNCHANGED <<now, gameVars, rejection, entries>>

\* PlayerLogin onSubmit, shown while no player is current
SubmitName ==
    /\ ~IsSome(currentPlayer)
    /\ \E name \in Names : createPlayer(name) /\ LedgerFrame /\ Handler

\* PlayerLogin handleSelectPlayer, PlayerProfile switch buttons, PlayerHeader cancel
ChoosePlayer ==
    \E i \in DOMAIN players : selectPlayer(players[i].id) /\ LedgerFrame /\ Handler

\* PlayerHeader handleSwitchPlayer and the other selectPlayer('') buttons
handleSwitchPlayer == selectPlayer(EmptyString) /\ LedgerFrame /\ Handler

\* GameBoard handleNewGame: "Start New Game" when idle, "Play Again" when won
handleNewGame ==
    /\ IsSome(currentPlayer)
    /\ gameStatus \in {"idle", "won"}
    /\ \E draw \in RandomDraws : startNewGame(Get(currentPlayer).id, draw) /\ Handler

\* GuessInput onSubmit behind the form's validation
onSubmit ==
    /\ IsSome(currentPlayer)
    /\ gameStatus = "playing"
    /\ \E guess \in GuessValues :
        /\ guess >= 1 /\ guess <= 100
        /\ ~Includes(guesses, guess)
        /\ makeGuess(guess)
        /\ Handler

\* a page load: both stores start anew, App's effect calls loadPlayers
PageLoad ==
    /\ ~renderPending
    /\ loadPlayers
    /\ currentGame' = None
    /\ targetNumber' = 0
    /\ guesses' = <<>>
    /\ gameStatus' = "idle"
    /\ guessResults' = <<>>
    /\ rejection' = ""
    /\ renderPending' = IsSome(currentPlayer')
    /\ entries' = <<>>
    /\ UNCHANGED <<now, sessionStorage, sessionLog>>

Init ==
    /\ now = 1
    /\ players = <<>>
    /\ currentPlayer = None
    /\ currentGame = None
    /\ targetNumber = 0
    /\ guesses = <<>>
    /\ gameStatus = "idle"
    /\ guessResults = <<>>
    /\ localStorage = [PLAYERS |-> None, GAMES |-> None, CURRENT_PLAYER |-> None]
    /\ sessionStorage = {}
    /\ renderPending = FALSE
    /\ winLog = <<>>
    /\ sessionLog = <<>>
    /\ rejection = ""
    /\ entries = <<>>

\* the player store under direct calls
LedgerNext ==
    \/ Tick
    \/ CallLoadPlayers
    \/ CallCreatePlayer
    \/ CallSelectPlayer
    \/ CallUpdatePlayerStats
    \/ CallIncrementGamesPlayed

SpecLedger == Init /\ [][LedgerNext]_vars

\* what an earlier visit, or another script of the origin, left in localStorage
StoredPlayers ==
    {[NewPlayer(name, t) EXCEPT !.gamesPlayed = k] :
        name \in Names, t \in 1..MaxClock, k \in 0..1}
StoredRosters == UNION {[1..n -> StoredPlayers] : n \in 0..MaxPlayers}
StoredPointers == {None} \cup {Some(playerId) : playerId \in AnyId}

\* a page opened on such a localStorage, the stores as constructed
InitStored ==
    /\ now = 1
    /\ players = <<>>
    /\ currentPlayer = None
    /\ currentGame = None
    /\ targetNumber = 0
    /\ guesses = <<>>
    /\ gameStatus = "idle"
    /\ guessResults = <<>>
    /\ \E ps \in StoredRosters, pointer \in StoredPointers, present \in BOOLEAN :
        /\ ~present => ps = <<>>
        /\ localStorage =
            [PLAYERS |-> IF present
                         THEN savePlayers([PLAYERS |-> None], ps).PLAYERS
                         ELSE None,
             GAMES |-> None, CURRENT_PLAYER |-> pointer]
    /\ sessionStorage = {}
    /\ renderPending = FALSE
    /\ winLog = <<>>
    /\ sessionLog = <<>>
    /\ rejection = ""
    /\ entries = <<>>

StoredNext ==
    \/ CallLoadPlayers
    \/ CallSelectPlayer

SpecStored == InitStored /\ [][StoredNext]_vars

\* every value of Math.random() that gives another target, as <<numerator, denominator>>
AllDraws == {<<k, 100>> : k \in 0..99}
\* every guess the form lets through
AllGuesses == 1..100

\* the first session of a page, on any target
CallStartAnyGame ==
    /\ gameStatus = "idle"
    /\ \E draw \in AllDraws : startNewGame(<<"player", now>>, draw) /\ Direct

\* the first guess of a session, any value
CallFirstGuess ==
    /\ guesses = <<>>
    /\ \E guess \in AllGuesses : makeGuess(guess) /\ Direct

FeedbackNext ==
    \/ CallStartAnyGame
    \/ CallFirstGuess

SpecFeedback == Init /\ [][FeedbackNext]_vars

\* the averages of a stored roster, by roster position
Averages(pattern, i) ==
    CASE pattern = "scenario" -> <<(<<5, 4, 6>>)[((i - 1) % 3) + 1], 1>>
      [] pattern = "descending" -> <<20 - i, 1>>
      [] pattern = "mixed" -> Quotient(((i * 7) % 5) * 3, 2)
      [] pattern = "novices" -> IF i = 1 THEN <<7, 1>> ELSE Zero
Patterns == {"scenario", "descending", "mixed", "novices"}

\* the record of a player who started sessions and has the average a, or started none
BoardPlayer(i, a, started) ==
    IF ~started THEN NewPlayer("Alice", i)
    ELSE [NewPlayer("Alice", i) EXCEPT
            !.gamesPlayed = IF a = Zero THEN 1 ELSE a[2],
            !.gamesWon = IF a = Zero THEN 0 ELSE a[2],
            !.totalGuesses = a[1],
            !.bestGame = a[1] \div a[2],
            !.averageGuesses = a]

BoardRosters ==
    {[i \in 1..n |-> BoardPlayer(i, Averages(pattern, i), i \in started)] :
        n \in 0..MaxRoster, started \in SUBSET (1..MaxRoster), pattern \in Patterns}

\* a page opened on a localStorage that holds a roster of up to MaxRoster players
InitBoard ==
    /\ now = 1
    /\ players = <<>>
    /\ currentPlayer = None
    /\ currentGame = None
    /\ targetNumber = 0
    /\ guesses = <<>>
    /\ gameStatus = "idle"
    /\ guessResults = <<>>
    /\ \E ps \in BoardRosters :
        localStorage = [PLAYERS |-> savePlayers([PLAYERS |-> None], ps).PLAYERS,
                        GAMES |-> None, CURRENT_PLAYER |-> None]
    /\ sessionStorage = {}
    /\ renderPending = FALSE
    /\ winLog = <<>>
    /\ sessionLog = <<>>
    /\ rejection = ""
    /\ entries = <<>>

BoardNext ==
    \/ CallLoadPlayers
    \/ updateLeaderboard

SpecBoard == InitBoard /\ [][BoardNext]_vars

\* both stores under direct calls
Next ==
    \/ Tick
    \/ CallCreatePlayer
    \/ CallStartNewGame
    \/ CallMakeGuess
    \/ CallResetGame

Spec == Init /\ [][Next]_vars

\* the application driven through its components
UINext ==
    \/ Tick
    \/ SubmitName
    \/ ChoosePlayer
    \/ handleSwitchPlayer
    \/ handleNewGame
    \/ onSubmit
    \/ WinEffect
    \/ PageLoad

SpecUI == Init /\ [][UINext]_vars

\* the first guess of a player who then counts upwards, wrapping from 100 to 1
SweepStarts == {1, 51}
nextGuess(log) == IF log = <<>> THEN SweepStarts ELSE {(log[Len(log)] % 100) + 1}

\* "Start New Game" of the idle GameBoard, on any target
handleFirstGame ==
    /\ IsSome(currentPlayer)
    /\ gameStatus = "idle"
    /\ \E draw \in AllDraws : startNewGame(Get(currentPlayer).id, draw) /\ Handler

\* GuessInput onSubmit behind the form's validation, the player sweeping the range
onSubmitSweep ==
    /\ IsSome(currentPlayer)
    /\ gameStatus = "playing"
    /\ \E guess \in nextGuess(guesses) :
        /\ guess >= 1 /\ guess <= 100
        /\ ~Includes(guesses, guess)
        /\ makeGuess(guess)
        /\ Handler

\* one player playing one session to its end
SweepNext ==
    \/ Tick
    \/ SubmitName
    \/ handleFirstGame
    \/ onSubmitSweep
    \/ WinEffect

\* React runs the effect of every render; the player keeps submitting guesses
SpecSweep ==
    Init /\ [][SweepNext]_vars /\ WF_vars(WinEffect) /\ WF_vars(onSubmitSweep)

\* ------------------------------------------------------------------ claims
RECURSIVE SeqSum(_)
SeqSum(seq) == IF seq = <<>> THEN 0 ELSE seq[1] + SeqSum(Tail(seq))

RECURSIVE SeqMin(_)
SeqMin(seq) == IF Len(seq) = 1 THEN seq[1]
               ELSE LET m == SeqMin(Tail(seq)) IN IF seq[1] <= m THEN seq[1] ELSE m

\* C1: every player's averageGuesses is totalGuesses / gamesWon when gamesWon > 0 and 0
\* when gamesWon = 0, whatever the number of started sessions; 3 starts with wins of 10
\* and 20 guesses give gamesPlayed 3, gamesWon 2, totalGuesses 30, average 15, best 10.
C1_AverageOverWins ==
    \A i \in DOMAIN players :
        LET p == players[i]
        IN  /\ p.gamesWon > 0 =>
                /\ p.averageGuesses[1] * p.gamesWon = p.totalGuesses * p.averageGuesses[2]
                /\ p.averageGuesses[2] > 0
            /\ p.gamesWon = 0 => p.averageGuesses = <<0, 1>>
            /\ (p.gamesPlayed = 3 /\ winLog[i] = <<10, 20>>) =>
                /\ p.gamesWon = 2
                /\ p.totalGuesses = 30
                /\ p.averageGuesses = <<15, 1>>
                /\ p.bestGame = 10

C1_Witness ==
    \E i \in DOMAIN players :
        /\ players[i].gamesPlayed = 3
        /\ winLog[i] = <<10, 20>>
        /\ players[i].averageGuesses = <<15, 1>>

\* C2: after wins with guess counts c1..cn recorded for a player created with zero
\* statistics, totalGuesses is their sum, gamesWon is n, bestGame is their minimum and
\* averageGuesses is sum / n.
C2_WinTotals ==
    \A i \in DOMAIN players :
        LET p == players[i]
            c == winLog[i]
        IN  /\ p.totalGuesses = SeqSum(c)
            /\ p.gamesWon = Len(c)
            /\ Len(c) > 0 =>
                /\ p.bestGame = SeqMin(c)
                /\ p.averageGuesses[1] * Len(c) = SeqSum(c) * p.averageGuesses[2]
                /\ p.averageGuesses[2] > 0

C2_Witness ==
    \E i \in DOMAIN players :
        /\ winLog[i] = <<20, 10>>
        /\ players[i].bestGame = 10
        /\ players[i].totalGuesses = 30

\* the statistics a win writes
WinFields(p) == <<p.gamesWon, p.totalGuesses, p.bestGame, p.averageGuesses>>
\* everything of a player except lastPlayed
Identity(p) == <<p.id, p.name>>

\* C3: incrementGamesPlayed(p) adds exactly 1 to p.gamesPlayed and leaves p.gamesWon,
\* p.totalGuesses, p.bestGame and p.averageGuesses alone; updatePlayerStats(p, c) leaves
\* p.gamesPlayed alone; neither changes a player with another id, nor the roster's length.
C3_DisjointFields ==
    [][\A playerId \in AnyId :
        /\ incrementGamesPlayed(playerId) =>
            /\ Len(players') = Len(players)
            /\ \A i \in DOMAIN players :
                IF players[i].id = playerId
                THEN /\ players'[i].gamesPlayed = players[i].gamesPlayed + 1
                     /\ WinFields(players'[i]) = WinFields(players[i])
                     /\ Identity(players'[i]) = Identity(players[i])
                ELSE players'[i] = players[i]
        /\ \A guessCount \in GuessCounts :
            updatePlayerStats(playerId, guessCount) =>
                /\ Len(players') = Len(players)
                /\ \A i \in DOMAIN players :
                    IF players[i].id = playerId
                    THEN /\ players'[i].gamesPlayed = players[i].gamesPlayed
                         /\ Identity(players'[i]) = Identity(players[i])
                    ELSE players'[i] = players[i]
      ]_vars

C3_Witness ==
    \E i, j \in DOMAIN players :
        /\ players[i].id # players[j].id
        /\ players[i].gamesPlayed = 2
        /\ players[i].gamesWon = 1
        /\ players[j].gamesPlayed = 0
        /\ players[j].gamesWon = 0
        /\ players[j].lastPlayed < players[i].lastPlayed

\* the first roster entry with the id
FirstWithId(ps, playerId) ==
    ps[CHOOSE i \in DOMAIN ps :
        ps[i].id = playerId /\ \A j \in 1..(i - 1) : ps[j].id # playerId]

\* C10: selectPlayer(id) never changes the roster; '' clears the current player and
\* persists the cleared pointer; the id of a roster entry makes that entry current and
\* persists the id; another id leaves current player and persisted pointer alone.
C10_SelectOutcomes ==
    [][\A playerId \in AnyId :
        selectPlayer(playerId) =>
            /\ players' = players
            /\ localStorage'.PLAYERS = localStorage.PLAYERS
            /\ playerId = <<>> =>
                /\ currentPlayer' = <<>>
                /\ localStorage'.CURRENT_PLAYER = <<playerId>>
            /\ (playerId # <<>> /\ \E i \in DOMAIN players : players[i].id = playerId) =>
                /\ currentPlayer' = <<FirstWithId(players, playerId)>>
                /\ localStorage'.CURRENT_PLAYER = <<playerId>>
            /\ (playerId # <<>> /\ \A i \in DOMAIN players : players[i].id # playerId) =>
                /\ currentPlayer' = currentPlayer
                /\ localStorage'.CURRENT_PLAYER = localStorage.CURRENT_PLAYER
      ]_vars

C10_Witness ==
    /\ Len(players) = 2
    /\ currentPlayer = <<players[1]>>
    /\ localStorage.CURRENT_PLAYER = <<players[1].id>>
    /\ players[1].id # players[2].id

StoredGames == IF localStorage.GAMES = <<>> THEN <<>> ELSE localStorage.GAMES[1]
Guessed(v) == \E i \in DOMAIN guesses : guesses[i] = v
NoGameOrComplete == currentGame = <<>> \/ currentGame[1].isComplete

\* C5: makeGuess(v) with no current game, with a complete current game or with v already
\* in the guess log changes nothing: not the session state (so no classification is
\* added), not the persisted games, not the roster, not the current player.
C5_RejectedGuess ==
    [][\A guess \in GuessValues :
        (makeGuess(guess) /\ (NoGameOrComplete \/ Guessed(guess))) =>
            /\ UNCHANGED <<currentGame, targetNumber, guesses, guessResults, gameStatus>>
            /\ UNCHANGED <<localStorage, players, currentPlayer>>
      ]_vars

C5_Witness ==
    /\ rejection = "duplicate"
    /\ gameStatus = "playing"
    /\ Len(guesses) = 2
    /\ Len(guessResults) = 2
    /\ Len(StoredGames) = 1

\* C6: an accepted makeGuess(v) in state playing appends v to the guess log and its
\* classification to the result log, and ends in won with isComplete and completedAt set
\* exactly when v is the target number, else in playing with isComplete false; with
\* target 50 the guesses 25, 75, 50 end with the log [25, 75, 50] and a complete session.
C6_AcceptedGuess ==
    /\ [](guesses = <<25, 75, 50>> /\ targetNumber = 50 =>
            /\ gameStatus = "won"
            /\ currentGame[1].isComplete
            /\ currentGame[1].guesses = <<25, 75, 50>>
            /\ [i \in 1..3 |-> guessResults[i].feedback] = <<"too-low", "too-high", "correct">>
            /\ [i \in 1..3 |-> guessResults[i].distance] = <<"cold", "cold", "hot">>
            /\ [i \in 1..3 |-> guessResults[i].difference] = <<25, 25, 0>>)
    /\ [][\A guess \in GuessValues :
            (makeGuess(guess) /\ gameStatus = "playing" /\ ~NoGameOrComplete /\ ~Guessed(guess)) =>
                /\ guesses' = guesses \o <<guess>>
                /\ currentGame'[1].guesses = guesses'
                /\ Len(guessResults') = Len(guessResults) + 1
                /\ SubSeq(guessResults', 1, Len(guessResults)) = guessResults
                /\ guessResults'[Len(guessResults')].guess = guess
                /\ (guessResults'[Len(guessResults')].feedback = "correct") = (guess = targetNumber)
                /\ IF guess = targetNumber
                   THEN /\ gameStatus' = "won"
                        /\ currentGame'[1].isComplete
                        /\ currentGame'[1].completedAt # <<>>
                   ELSE /\ gameStatus' = "playing"
                        /\ ~currentGame'[1].isComplete
       ]_vars

C6_Witness ==
    /\ guesses = <<25, 75, 50>>
    /\ targetNumber = 50
    /\ gameStatus = "won"
    /\ currentGame[1].completedAt # <<>>

\* the records of a game collection whose id is not the given one, in order
RECURSIVE OtherGames(_, _)
OtherGames(games, id) ==
    IF games = <<>> THEN <<>>
    ELSE IF games[1].id = id THEN OtherGames(Tail(games), id)
    ELSE <<games[1]>> \o OtherGames(Tail(games), id)

\* a persisted game record read back as the in-memory record
Revived(g) == [g EXCEPT !.startedAt = @[2],
                        !.completedAt = IF @ = <<>> THEN <<>> ELSE <<@[1][2]>>]

\* C7: after every accepted guess the persisted games hold exactly one record with the
\* current game's id, it equals the in-memory current game, and the persisted records
\* with another id are the ones persisted before the guess.
C7_UpsertOnEveryGuess ==
    [][\A guess \in GuessValues :
        (makeGuess(guess) /\ ~NoGameOrComplete /\ ~Guessed(guess)) =>
            LET id == currentGame[1].id
                before == StoredGames
                after == IF localStorage'.GAMES = <<>> THEN <<>> ELSE localStorage'.GAMES[1]
            IN  /\ Cardinality({i \in DOMAIN after : after[i].id = id}) = 1
                /\ \A i \in DOMAIN after :
                    after[i].id = id => Revived(after[i]) = currentGame'[1]
                /\ OtherGames(after, id) = OtherGames(before, id)
      ]_vars

C7_Witness ==
    /\ Len(StoredGames) = 2
    /\ StoredGames[1].id # StoredGames[2].id
    /\ Len(StoredGames[1].guesses) = 2
    /\ gameStatus = "playing"
    /\ Len(guesses) = 2
    /\ Revived(StoredGames[2]) = currentGame[1]

\* C8: startNewGame(playerId), from idle, playing or won, ends in playing with a new
\* current game owned by playerId with no guesses, not complete and a target in 1..100,
\* with both in-memory logs empty and one more gamesPlayed for that player.
C8_StartNewGame ==
    [][\A playerId \in PlayerIds \cup {InvalidId}, draw \in RandomDraws :
        startNewGame(playerId, draw) =>
            /\ gameStatus' = "playing"
            /\ currentGame' # <<>>
            /\ currentGame'[1].playerId = playerId
            /\ currentGame'[1].guesses = <<>>
            /\ ~currentGame'[1].isComplete
            /\ currentGame'[1].targetNumber \in 1..100
            /\ targetNumber' = currentGame'[1].targetNumber
            /\ guesses' = <<>>
            /\ guessResults' = <<>>
            /\ Len(players') = Len(players)
            /\ \A i \in DOMAIN players :
                players[i].id = playerId =>
                    players'[i].gamesPlayed = players[i].gamesPlayed + 1
      ]_vars

C8_Witness ==
    /\ Len(sessionLog) = 2
    /\ sessionLog[1].won
    /\ gameStatus = "playing"
    /\ guesses = <<>>
    /\ \E i \in DOMAIN players :
        players[i].id = currentGame[1].playerId /\ players[i].gamesPlayed = 2

\* C9: resetGame, from any session state, sets currentGame to none, targetNumber to 0,
\* both logs to empty and gameStatus to idle, and changes neither the persisted games nor
\* the roster nor the current player nor the persisted selection.
C9_ResetGame ==
    [][resetGame =>
        /\ currentGame' = <<>>
        /\ targetNumber' = 0
        /\ guesses' = <<>>
        /\ guessResults' = <<>>
        /\ gameStatus' = "idle"
        /\ UNCHANGED <<localStorage, players, currentPlayer>>
      ]_vars

C9_Witness ==
    /\ gameStatus = "idle"
    /\ currentGame = <<>>
    /\ targetNumber = 0
    /\ Len(sessionLog) = 1
    /\ Len(StoredGames) = 1
    /\ ~StoredGames[1].isComplete
    /\ \E i \in DOMAIN players : players[i].gamesPlayed = 1

\* C4: a session that reaches won has updatePlayerStats invoked for it exactly once: never
\* twice, however often the win effect runs, and once as soon as the effect of the render
\* that shows the win has run.
C4_RecordedExactlyOnce ==
    \A s \in DOMAIN sessionLog :
        /\ sessionLog[s].recorded <= 1
        /\ sessionLog[s].recorded = 1 => sessionLog[s].won
        /\ (/\ sessionLog[s].won
            /\ ~(s = Len(sessionLog) /\ gameStatus = "won" /\ renderPending)) =>
                sessionLog[s].recorded = 1

Known(playerId) == \E i \in DOMAIN players : players[i].id = playerId

\* C11: incrementGamesPlayed and updatePlayerStats called with an id that matches no roster
\* entry change nothing: every player's record and the current player are after the call
\* what they were before it.
C11_UnknownIdNoOp ==
    [][\A playerId \in AnyId :
        ~Known(playerId) =>
            /\ incrementGamesPlayed(playerId) =>
                players' = players /\ currentPlayer' = currentPlayer
            /\ \A guessCount \in GuessCounts :
                updatePlayerStats(playerId, guessCount) =>
                    players' = players /\ currentPlayer' = currentPlayer
      ]_vars

\* the persisted roster read back as in-memory records
StoredRoster(ls) ==
    IF ls.PLAYERS = <<>> THEN <<>>
    ELSE [i \in DOMAIN ls.PLAYERS[1] |-> [ls.PLAYERS[1][i] EXCEPT !.lastPlayed = @[2]]]

\* C12: createPlayer(name) appends exactly one player, with gamesPlayed, gamesWon,
\* totalGuesses, bestGame and averageGuesses all 0, at the end of the roster, leaves the
\* existing records alone, makes the new player current, and persists the new roster and
\* the new player's id as the selection pointer.
C12_CreatePlayer ==
    [][\A name \in Names :
        createPlayer(name) =>
            /\ Len(players') = Len(players) + 1
            /\ SubSeq(players', 1, Len(players)) = players
            /\ LET p == players'[Len(players')]
               IN  /\ p.name = name
                   /\ <<p.gamesPlayed, p.gamesWon, p.totalGuesses, p.bestGame>> = <<0, 0, 0, 0>>
                   /\ p.averageGuesses = <<0, 1>>
                   /\ currentPlayer' = <<p>>
                   /\ localStorage'.CURRENT_PLAYER = <<p.id>>
            /\ StoredRoster(localStorage') = players'
      ]_vars

C12_Witness ==
    /\ Len(players) = 2
    /\ players[1].gamesPlayed = 2
    /\ players[1].gamesWon = 1
    /\ players[2].id # players[1].id
    /\ players[2].gamesPlayed = 0
    /\ players[2].averageGuesses = <<0, 1>>
    /\ currentPlayer = <<players[2]>>
    /\ localStorage.CURRENT_PLAYER = <<players[2].id>>
    /\ StoredRoster(localStorage) = players

\* C13: loadPlayers sets the roster to the persisted roster and the current player to the
\* roster entry whose id is the persisted selection pointer, and to none when the pointer
\* is absent, empty or names no roster entry.
C13_LoadPlayers ==
    [][loadPlayers =>
        LET stored == StoredRoster(localStorage)
            pointer == localStorage.CURRENT_PLAYER
        IN  /\ players' = stored
            /\ currentPlayer' =
                IF /\ pointer # <<>>
                   /\ pointer[1] # <<>>
                   /\ \E i \in DOMAIN stored : stored[i].id = pointer[1]
                THEN <<FirstWithId(stored, pointer[1])>>
                ELSE <<>>
      ]_vars

C13_Witness ==
    /\ Len(players) = 2
    /\ players = StoredRoster(localStorage)
    /\ localStorage.CURRENT_PLAYER # <<>>
    /\ localStorage.CURRENT_PLAYER[1] # <<>>
    /\ ~Known(localStorage.CURRENT_PLAYER[1])
    /\ currentPlayer = <<>>

\* C14: for all guesses g and targets t in 1..100 the classification of g has difference
\* |g - t|, feedback correct iff g = t, too-high iff g > t, too-low iff g < t, and
\* distance hot iff |g - t| <= 5, warm iff 5 < |g - t| <= 15, cold iff |g - t| > 15,
\* whatever the feedback.
C14_Classification ==
    \A i \in DOMAIN guessResults :
        LET r == guessResults[i]
            g == guesses[i]
            t == targetNumber
            d == IF g >= t THEN g - t ELSE t - g
        IN  (g \in 1..100 /\ t \in 1..100) =>
                /\ r.guess = g
                /\ r.difference = d
                /\ r.feedback \in {"correct", "too-high", "too-low"}
                /\ (r.feedback = "correct") = (g = t)
                /\ (r.feedback = "too-high") = (g > t)
                /\ (r.feedback = "too-low") = (g < t)
                /\ r.distance \in {"hot", "warm", "cold"}
                /\ (r.distance = "hot") = (d <= 5)
                /\ (r.distance = "warm") = (5 < d /\ d <= 15)
                /\ (r.distance = "cold") = (d > 15)

C14_Witness ==
    /\ targetNumber = 95
    /\ guesses = <<100>>
    /\ Len(guessResults) = 1
    /\ guessResults[1].feedback = "too-high"
    /\ guessResults[1].distance = "hot"
    /\ guessResults[1].difference = 5

\* the roster positions of the players who started a session
Started == {i \in DOMAIN players : players[i].gamesPlayed > 0}
\* a <= b on averages
AtMost(a, b) == a[1] * b[2] <= b[1] * a[2]
\* the roster positions a leaderboard lists
Listed(board) == {i \in DOMAIN players : \E k \in DOMAIN board : board[k].playerId = players[i].id}

\* C15: the leaderboard computed from a roster has entries only for players with
\* gamesPlayed > 0, in non-decreasing order of averageGuesses, the entry at position i
\* having rank i, and at most 10 entries, those of the 10 lowest averages; an empty roster
\* gives an empty list.
C15_Leaderboard ==
    [][updateLeaderboard =>
        LET board == entries'
        IN  /\ \A k \in DOMAIN board :
                /\ board[k].rank = k
                /\ \E i \in Started :
                    /\ board[k].playerId = players[i].id
                    /\ board[k].playerName = players[i].name
                    /\ board[k].averageGuesses = players[i].averageGuesses
                    /\ board[k].gamesPlayed = players[i].gamesPlayed
            /\ \A k, m \in DOMAIN board :
                /\ k < m => AtMost(board[k].averageGuesses, board[m].averageGuesses)
                /\ k # m => board[k].playerId # board[m].playerId
            /\ Len(board) = IF Cardinality(Started) <= 10 THEN Cardinality(Started) ELSE 10
            /\ \A i \in Started \ Listed(board) :
                \A k \in DOMAIN board :
                    AtMost(board[k].averageGuesses, players[i].averageGuesses)
            /\ players = <<>> => board = <<>>
      ]_vars

C15_Witness ==
    /\ Len(players) = 12
    /\ Cardinality(Started) = 11
    /\ players[1].gamesPlayed = 0
    /\ Len(entries) = 10
    /\ entries[1].playerId = <<"player", 12>>
    /\ entries[1].averageGuesses = <<8, 1>>
    /\ entries[10].playerId = <<"player", 3>>
    /\ entries[10].rank = 10

\* the roster positions of the players who started a session and never won
NeverWon == {i \in Started : players[i].gamesWon = 0 /\ players[i].averageGuesses = <<0, 1>>}
\* the roster positions of the players with at least one win
Winners == {i \in DOMAIN players : players[i].gamesWon > 0}
RankOf(board, i) == board[CHOOSE k \in DOMAIN board : board[k].playerId = players[i].id].rank

C17_PlayedCoversRecords ==
    \A i \in DOMAIN players :
        players[i].gamesPlayed >=
            Cardinality({k \in DOMAIN StoredGames : StoredGames[k].playerId = players[i].id})

\* C18: while a game is current it is complete exactly when its guess log is non-empty and
\* ends with its target number, it has a completedAt exactly when it is complete, and
\* gameStatus is won exactly when it is complete.
C18_CompleteIffLastIsTarget ==
    currentGame # <<>> =>
        LET game == currentGame[1]
            log == game.guesses
        IN  /\ game.isComplete = (log # <<>> /\ log[Len(log)] = game.targetNumber)
            /\ (game.completedAt # <<>>) = game.isComplete
            /\ (gameStatus = "won") = game.isComplete

C18_Witness ==
    /\ currentGame # <<>>
    /\ currentGame[1].isComplete
    /\ currentGame[1].guesses = <<75, 50>>
    /\ currentGame[1].targetNumber = 50
    /\ currentGame[1].completedAt = <<2>>
    /\ currentGame[1].startedAt = 1
    /\ gameStatus = "won"

NoDuplicates(seq) == \A i, j \in DOMAIN seq : i # j => seq[i] # seq[j]

\* C19: within one session the guess log is append-only and free of duplicates: an accepted
\* makeGuess adds exactly one element at the end and keeps the earlier ones, no value
\* occurs twice in the log, and no value is classified twice.
C19_AppendOnlyNoDuplicates ==
    /\ [](/\ NoDuplicates(guesses)
          /\ NoDuplicates([i \in DOMAIN guessResults |-> guessResults[i].guess])
          /\ currentGame # <<>> => NoDuplicates(currentGame[1].guesses))
    /\ [][(Len(sessionLog') = Len(sessionLog) /\ currentGame # <<>> /\ currentGame' # <<>>) =>
            /\ \/ guesses' = guesses /\ guessResults' = guessResults
               \/ /\ Len(guesses') = Len(guesses) + 1
                  /\ SubSeq(guesses', 1, Len(guesses)) = guesses
                  /\ Len(guessResults') = Len(guessResults) + 1
                  /\ SubSeq(guessResults', 1, Len(guessResults)) = guessResults
            /\ currentGame'[1].guesses = guesses'
       ]_vars

C19_Witness ==
    /\ guesses = <<75, 25, 50>>
    /\ [i \in DOMAIN guessResults |-> guessResults[i].guess] = <<75, 25, 50>>
    /\ targetNumber = 100
    /\ rejection = "duplicate"

\* C20: the target of a session is an integer in 1..100 chosen by startNewGame and fixed
\* for the session: no makeGuess, accepted or rejected, changes the store's targetNumber
\* or the current game's, and the two are equal while a game is current.
C20_TargetFixed ==
    /\ [](currentGame # <<>> =>
            /\ targetNumber \in 1..100
            /\ currentGame[1].targetNumber = targetNumber)
    /\ [][\A guess \in GuessValues :
            makeGuess(guess) =>
                /\ targetNumber' = targetNumber
                /\ (currentGame = <<>>) = (currentGame' = <<>>)
                /\ currentGame # <<>> =>
                    currentGame'[1].targetNumber = currentGame[1].targetNumber
       ]_vars

C20_Witness ==
    /\ targetNumber = 100
    /\ currentGame # <<>>
    /\ currentGame[1].targetNumber = 100
    /\ guesses = <<25, 50>>
    /\ rejection = "duplicate"

\* C21: identifiers are unique: no two players of the roster share an id and no two
\* started sessions share a game id, also when two creations or two starts read the same
\* clock value.
C21_UniqueIds ==
    /\ \A i, j \in DOMAIN players : i # j => players[i].id # players[j].id
    /\ \A s, t \in DOMAIN sessionLog : s # t => sessionLog[s].id # sessionLog[t].id

\* C22: a complete game record is immutable: once the persisted collection holds a record
\* with isComplete set, every later step keeps that record as it is.
C22_CompleteRecordsImmutable ==
    [][\A k \in DOMAIN StoredGames :
        StoredGames[k].isComplete =>
            LET after == IF localStorage'.GAMES = <<>> THEN <<>> ELSE localStorage'.GAMES[1]
            IN  k \in DOMAIN after /\ after[k] = StoredGames[k]
      ]_vars

\* the session s was left unfinished: another session was started after it, or the
\* selection moved away from its owner
Abandoned(s) ==
    /\ ~sessionLog[s].won
    /\ \/ s < Len(sessionLog)
       \/ currentPlayer = <<>>
       \/ currentPlayer[1].id # sessionLog[s].owner

\* C23: an abandoned session stays in the persisted games as an incomplete record from then
\* on, it has counted toward its owner's gamesPlayed, and it never counts toward a
\* gamesWon: it is not won later and no win is recorded for it.
C23_AbandonedStaysIncomplete ==
    [][\A s \in DOMAIN sessionLog :
        Abandoned(s) =>
            /\ \E k \in DOMAIN StoredGames :
                /\ StoredGames[k].id = sessionLog[s].id
                /\ ~StoredGames[k].isComplete
            /\ \E i \in DOMAIN players :
                players[i].id = sessionLog[s].owner /\ players[i].gamesPlayed >= 1
            /\ ~sessionLog'[s].won
            /\ sessionLog'[s].recorded = 0
      ]_vars

\* C24: gameStatus is idle, playing or won, never lost, and changes only along: to playing
\* by startNewGame (from idle, playing or won), from playing to playing or won by an
\* accepted makeGuess, to idle by resetGame; a rejected makeGuess keeps it, won is never
\* entered from idle and is left only by startNewGame or resetGame.
C24_StatusTransitions ==
    /\ [](gameStatus \in {"idle", "playing", "won"})
    /\ [][/\ CallStartNewGame => gameStatus' = "playing"
          /\ CallResetGame => gameStatus' = "idle"
          /\ CallMakeGuess =>
                IF rejection' = ""
                THEN gameStatus = "playing" /\ gameStatus' \in {"playing", "won"}
                ELSE gameStatus' = gameStatus
          /\ gameStatus' # gameStatus =>
                \/ gameStatus' = "playing" /\ CallStartNewGame
                \/ gameStatus = "playing" /\ gameStatus' = "won" /\ CallMakeGuess
                \/ gameStatus' = "idle" /\ CallResetGame
       ]_vars

C24_Witness ==
    /\ gameStatus = "won"
    /\ Len(sessionLog) = 2
    /\ sessionLog[1].won
    /\ sessionLog[2].won
    /\ guesses = <<25, 50>>

\* C25: under the intents of the page and the win effect every player has
\* gamesWon <= gamesPlayed, so the displayed win rate is never above 100.
C25_WonAtMostPlayed ==
    \A i \in DOMAIN players : players[i].gamesWon <= players[i].gamesPlayed

\* C26: every win the win effect records is credited to the owner of the won game, the
\* playerId the session was started with, and the guess count recorded is the length of
\* that game's guess log.
C26_WinCreditedToOwner ==
    /\ [](\A s \in DOMAIN sessionLog :
            \A c \in DOMAIN sessionLog[s].credited :
                sessionLog[s].credited[c] = sessionLog[s].owner)
    /\ [][\A i \in DOMAIN winLog :
            (i \in DOMAIN winLog' /\ winLog'[i] # winLog[i]) =>
                /\ currentGame # <<>>
                /\ winLog'[i] = Append(winLog[i], Len(currentGame[1].guesses))
                /\ players[i].id = currentGame[1].playerId
       ]_vars

\* C27: loadPlayers reproduces the in-memory state: after any calls of the player store the
\* reloaded roster is the roster before the reload and the reloaded current player is the
\* current player before it.
C27_ReloadReproduces ==
    [][CallLoadPlayers => (players' = players /\ currentPlayer' = currentPlayer)]_vars

\* C28: the current player is none or field for field a roster entry with the same id,
\* never a stale snapshot of it.
C28_CurrentIsRosterEntry ==
    currentPlayer # <<>> =>
        \E i \in DOMAIN players :
            /\ players[i].id = currentPlayer[1].id
            /\ players[i] = currentPlayer[1]

C28_Witness ==
    /\ Len(players) = 2
    /\ currentPlayer # <<>>
    /\ currentPlayer[1] = players[2]
    /\ players[2].id # players[1].id
    /\ players[2].gamesPlayed = 2
    /\ players[2].gamesWon = 1
    /\ players[2].bestGame = 10

\* C30: while a session is playing the narrowed range of GameStats contains the target,
\* minRange <= targetNumber <= maxRange, and within a session the bounds never widen:
\* minRange never falls and maxRange never rises.
C30_RangeContainsTarget ==
    /\ [](gameStatus = "playing" =>
            /\ minRange(guesses, guessResults) <= targetNumber
            /\ targetNumber <= maxRange(guesses, guessResults))
    /\ [][(Len(sessionLog') = Len(sessionLog) /\ gameStatus = "playing" /\ gameStatus' # "idle") =>
            /\ minRange(guesses', guessResults') >= minRange(guesses, guessResults)
            /\ maxRange(guesses', guessResults') <= maxRange(guesses, guessResults)
       ]_vars

C30_Witness ==
    /\ gameStatus = "playing"
    /\ targetNumber = 100
    /\ guesses = <<75, 25>>
    /\ minRange(guesses, guessResults) = 76
    /\ maxRange(guesses, guessResults) = 100

\* C29: with every submitted guess an integer of 1..100 that is not yet in the log, the
\* guess log never holds more than 100 entries, a session that keeps receiving guesses
\* reaches won, and the guess count recorded for a win is between 1 and 100.
C29_SessionTerminates ==
    /\ [](/\ Len(guesses) <= 100
          /\ \A i \in DOMAIN winLog : \A k \in DOMAIN winLog[i] : winLog[i][k] \in 1..100)
    /\ (gameStatus = "playing") ~> (gameStatus = "won")

C29_Witness ==
    /\ gameStatus = "won"
    /\ Len(guesses) = 100
    /\ guesses[1] = 51
    /\ targetNumber = 50
    /\ winLog = <<<<100>>>>
====
